---- MODULE Spec2Model ----
(***************************************************************************)
(* A model of OrderService                                                 *)
(* (src/main/webapp/app/entities/order/service/order.service.ts).          *)
(*                                                                         *)
(* JavaScript values are records tagged with a "kind", so that null,       *)
(* undefined, strings, dayjs objects and orders can be compared with one   *)
(* another.  An array has an identity ("ref") beside its items, so that    *)
(* "the same array" and "an equal array" are different things.             *)
(***************************************************************************)
EXTENDS Integers, Sequences, FiniteSets

VARIABLES
    \* addOrderToCollectionIfMissing: the arguments and the result of the
    \* latest call, and the number of calls made so far
    orderCollection, ordersToCheck, result, calls,
    \* compareOrder: the two arguments and, once called, the value returned
    o1, o2, compareResult,
    \* the service's sort fields, and the latest getSortQueryParam call
    predicate, ascending, sortCall,
    \* the date conversions: a wire order, the in-memory order made of it,
    \* the wire order made of that, and how far the round trip has come
    restOrder, orderInMemory, restOrderBack, datePc,
    \* a CRUD call: the operation invoked, the requests handed to HttpClient
    \* for it, the failure the transport raised (if any), what the caller's
    \* subscriber was delivered, and the number of response conversions run
    httpCall, httpRequests, httpFailure, httpOut, conversions,
    \* decrementGoodsCountOnShip: its argument, the calls it made to
    \* GoodService.updateAmountByGoodId, how far the call has come, the state
    \* of each update, the order the updates settled in, and what the
    \* subscriber of the combined observable was delivered
    goodsInOrder, updateCalls, shipPc, updates, arrivals, joinOut

collVars == <<orderCollection, ordersToCheck, result, calls>>
compareVars == <<o1, o2, compareResult>>
sortVars == <<predicate, ascending, sortCall>>
dateVars == <<restOrder, orderInMemory, restOrderBack, datePc>>
httpVars == <<httpCall, httpRequests, httpFailure, httpOut, conversions>>
shipVars == <<goodsInOrder, updateCalls, shipPc, updates, arrivals, joinOut>>

vars == <<collVars, compareVars, sortVars, dateVars, httpVars, shipVars>>

(***************************************************************************)
(* Bounds                                                                  *)
(***************************************************************************)
\* length of the collection the first call is given
MaxLen == 2
\* number of candidates of one call
MaxCands == 2
\* number of chained calls of addOrderToCollectionIfMissing
MaxCalls == 2
\* number of entries decrementGoodsCountOnShip is given
MaxGoods == 2

(***************************************************************************)
(* JavaScript values                                                       *)
(***************************************************************************)
Null == [kind |-> "null"]
Undefined == [kind |-> "undefined"]

\* An order: its identifier (a string) and the rest of its fields.  Two of
\* the orders share an identifier and differ in the rest.
Ids == {"1", "2", "3"}
Order(id, rest) == [kind |-> "order", id |-> id, rest |-> rest]
Orders == {Order("1", "a"), Order("1", "b"), Order("2", "a")}
AllOrders == {Order(id, rest) : id \in Ids, rest \in {"a", "b"}}

\* a string value, a dayjs object (of an instant, or invalid)
Str(s) == [kind |-> "string", v |-> s]
Dayjs(t) == [kind |-> "dayjs", v |-> t]

\* an optional model value: <<>> or <<v>>
None == <<>>
Some(v) == <<v>>

SeqsUpTo(S, n) == UNION {[1..k -> S] : k \in 0..n}

Includes(array, x) == \E i \in 1..Len(array) : array[i] = x

(***************************************************************************)
(* The service as constructed, with no call made on it yet                 *)
(***************************************************************************)
IdleColl ==
    /\ orderCollection = [ref |-> 0, items |-> <<>>]
    /\ ordersToCheck = <<>>
    /\ result = orderCollection
    /\ calls = 0

IdleCompare == o1 = Null /\ o2 = Null /\ compareResult = None

\* predicate = 'id'; ascending = true;
IdleSort ==
    /\ predicate = <<"i", "d">>
    /\ ascending = TRUE
    /\ sortCall = None

IdleDate ==
    /\ restOrder = None
    /\ orderInMemory = None
    /\ restOrderBack = None
    /\ datePc = "idle"

IdleHttp ==
    /\ httpCall = None
    /\ httpRequests = <<>>
    /\ httpFailure = None
    /\ httpOut = <<>>
    /\ conversions = 0

IdleShip ==
    /\ goodsInOrder = <<>>
    /\ updateCalls = <<>>
    /\ shipPc = "idle"
    /\ updates = <<>>
    /\ arrivals = <<>>
    /\ joinOut = <<>>

(***************************************************************************)
(* getOrderIdentifier, addOrderToCollectionIfMissing                       *)
(***************************************************************************)
isPresent(t) == t # Undefined /\ t # Null

getOrderIdentifier(order) == order.id

\* orderCollection.map(orderItem => this.getOrderIdentifier(orderItem)!)
Identifiers(items) == [i \in 1..Len(items) |-> getOrderIdentifier(items[i])]

\* the filter without the push: candidates are checked against the
\* collection only
OrdersToAddNoPush(orders, orderCollectionIdentifiers) ==
    SelectSeq(orders,
        LAMBDA orderItem :
            ~Includes(orderCollectionIdentifiers, getOrderIdentifier(orderItem)))

\* orders.filter(orderItem => ...): the callback pushes every identifier it
\* lets through on orderCollectionIdentifiers
RECURSIVE OrdersToAdd(_, _)
OrdersToAdd(orders, orderCollectionIdentifiers) ==
    IF orders = <<>> THEN <<>>
    ELSE LET orderItem == Head(orders)
             orderIdentifier == getOrderIdentifier(orderItem)
         IN  IF Includes(orderCollectionIdentifiers, orderIdentifier)
             THEN OrdersToAdd(Tail(orders), orderCollectionIdentifiers)
             ELSE <<orderItem>> \o
                  OrdersToAdd(Tail(orders),
                      Append(orderCollectionIdentifiers, orderIdentifier))

\* the early return taken on the accepted candidates instead of the present
\* ones
AddToCollectionReturnEarly(collection, candidates, fresh) ==
    LET orders == SelectSeq(candidates, isPresent)
        ordersToAdd == OrdersToAdd(orders, Identifiers(collection.items))
    IN  IF Len(ordersToAdd) > 0
        THEN [ref |-> fresh, items |-> ordersToAdd \o collection.items]
        ELSE collection

\* the candidates appended instead of prepended
AddToCollectionAppend(collection, candidates, fresh) ==
    LET orders == SelectSeq(candidates, isPresent)
    IN  IF Len(orders) > 0
        THEN [ref |-> fresh,
              items |-> collection.items \o
                        OrdersToAdd(orders, Identifiers(collection.items))]
        ELSE collection

\* `fresh` is the identity of the array the spread [...a, ...b] allocates
addOrderToCollectionIfMissing(collection, candidates, fresh) ==
    LET orders == SelectSeq(candidates, isPresent)
    IN  IF Len(orders) > 0
        THEN [ref |-> fresh,
              items |-> OrdersToAdd(orders, Identifiers(collection.items))
                        \o collection.items]
        ELSE collection

InitColl ==
    /\ orderCollection \in [ref : {0}, items : SeqsUpTo(Orders, MaxLen)]
    /\ ordersToCheck = <<>>
    /\ result = orderCollection
    /\ calls = 0
    /\ IdleCompare /\ IdleSort /\ IdleDate /\ IdleHttp /\ IdleShip

\* one call; a call after the first takes the previous result as its
\* collection
AddOrderToCollectionIfMissing ==
    /\ calls < MaxCalls
    /\ \E candidates \in SeqsUpTo(Orders \cup {Null, Undefined}, MaxCands) :
        /\ orderCollection' = result
        /\ ordersToCheck' = candidates
        /\ result' = addOrderToCollectionIfMissing(result, candidates, calls + 1)
    /\ calls' = calls + 1
    /\ UNCHANGED <<compareVars, sortVars, dateVars, httpVars, shipVars>>

NextColl == AddOrderToCollectionIfMissing

SpecColl == InitColl /\ [][NextColl]_vars

(***************************************************************************)
(* Claims about addOrderToCollectionIfMissing                              *)
(***************************************************************************)
\* candidate i is accepted: it is present and its identifier occurs neither
\* in the collection nor in an earlier candidate
Accepted(items, candidates, i) ==
    /\ candidates[i] \notin {Null, Undefined}
    /\ \A k \in 1..Len(items) : items[k].id # candidates[i].id
    /\ \A j \in 1..(i - 1) :
          candidates[j] \in {Null, Undefined} \/ candidates[j].id # candidates[i].id

\* the accepted candidates among the first n, in their given order
RECURSIVE AcceptedUpTo(_, _, _)
AcceptedUpTo(items, candidates, n) ==
    IF n = 0 THEN <<>>
    ELSE AcceptedUpTo(items, candidates, n - 1) \o
         (IF Accepted(items, candidates, n) THEN <<candidates[n]>> ELSE <<>>)

AcceptedOfCall ==
    AcceptedUpTo(orderCollection.items, ordersToCheck, Len(ordersToCheck))

NoDuplicateIds(items) ==
    \A i, j \in 1..Len(items) : items[i].id = items[j].id => i = j

SomePresent(candidates) ==
    \E i \in 1..Len(candidates) : candidates[i] \notin {Null, Undefined}

\* C1: a call returns the accepted candidates, in their given order,
\* followed by the collection it was given, which keeps its elements and
\* their order.
C1_AcceptedThenCollection ==
    calls > 0 => result.items = AcceptedOfCall \o orderCollection.items

\* C1 witness: a call on a non-empty collection that accepts one candidate
\* and drops another because of an earlier candidate's identifier.
C1_Witness ==
    /\ calls > 0
    /\ Len(orderCollection.items) > 0
    /\ Len(AcceptedOfCall) = 1
    /\ Len(SelectSeq(ordersToCheck, isPresent)) = 2
    /\ ordersToCheck[1].id = ordersToCheck[2].id
    /\ ordersToCheck[1] # ordersToCheck[2]

\* C2 as stated: the collection a call returns holds no two elements with
\* the same identifier, whatever collection the call was given.
C2_Original_NoDuplicatesEver ==
    calls > 0 => NoDuplicateIds(result.items)

\* C2 amended: if the collection a call is given holds no two elements with
\* the same identifier, then neither does the collection it returns; a
\* further call is given that result, so this carries through a chain.
C2_NoDuplicatesPreserved ==
    (calls > 0 /\ NoDuplicateIds(orderCollection.items))
        => NoDuplicateIds(result.items)

\* C2 witness: a second call, given the first call's duplicate-free result,
\* with one candidate that is already in it and two candidates that share
\* an identifier.
C2_Witness ==
    /\ calls = 2
    /\ NoDuplicateIds(orderCollection.items)
    /\ Len(orderCollection.items) > 0
    /\ Len(ordersToCheck) = 2
    /\ SomePresent(ordersToCheck)
    /\ \E i \in 1..Len(ordersToCheck) :
          /\ ordersToCheck[i] \notin {Null, Undefined}
          /\ ~Accepted(orderCollection.items, ordersToCheck, i)
    /\ Len(result.items) > Len(orderCollection.items)

\* C3 as stated: a call that accepts no candidate returns the very array
\* it was given.
C3_Original_SameArrayWhenNoneAccepted ==
    (calls > 0 /\ AcceptedOfCall = <<>>) => result.ref = orderCollection.ref

\* C3 amended: a call returns the very array it was given exactly when no
\* candidate is present (none given, or all null/undefined); a call with a
\* present candidate that accepts none returns a newly allocated array with
\* the same elements in the same order.
C3_SameArrayIffNonePresent ==
    calls > 0 =>
        /\ (result.ref = orderCollection.ref) <=> ~SomePresent(ordersToCheck)
        /\ ~SomePresent(ordersToCheck) => result = orderCollection
        /\ AcceptedOfCall = <<>> => result.items = orderCollection.items

\* C3 witness: a call whose candidates are null and undefined.
C3_Witness ==
    /\ calls > 0
    /\ Len(orderCollection.items) > 0
    /\ ordersToCheck = <<Null, Undefined>>
    /\ result.ref = orderCollection.ref

(***************************************************************************)
(* compareOrder                                                            *)
(***************************************************************************)
\* JavaScript truthiness of an object, null or undefined
Truthy(v) == v # Null /\ v # Undefined

\* a === b where at least one of a, b is null or undefined
StrictEquals(a, b) == a = b

\* == in the place of ===: null == undefined is true
CompareOrderLoose(a, b) ==
    IF Truthy(a) /\ Truthy(b)
    THEN getOrderIdentifier(a) = getOrderIdentifier(b)
    ELSE ~Truthy(a) /\ ~Truthy(b)

\* o1 && o2 ? getOrderIdentifier(o1) === getOrderIdentifier(o2) : o1 === o2
compareOrder(a, b) ==
    IF Truthy(a) /\ Truthy(b)
    THEN getOrderIdentifier(a) = getOrderIdentifier(b)
    ELSE StrictEquals(a, b)

InitCompare ==
    /\ o1 \in AllOrders \cup {Null, Undefined}
    /\ o2 \in AllOrders \cup {Null, Undefined}
    /\ compareResult = None
    /\ IdleColl /\ IdleSort /\ IdleDate /\ IdleHttp /\ IdleShip

CompareOrder ==
    /\ compareResult = None
    /\ compareResult' = Some(compareOrder(o1, o2))
    /\ UNCHANGED <<o1, o2, collVars, sortVars, dateVars, httpVars, shipVars>>

NextCompare == CompareOrder

SpecCompare == InitCompare /\ [][NextCompare]_vars

Absent(v) == v \in {Null, Undefined}

\* C7 as stated: true for two absent arguments in any combination of null
\* and undefined, false for one present and one absent argument, and for
\* two present arguments true exactly when their identifiers are equal.
C7_Original_AnyAbsentPairEqual ==
    compareResult # None =>
        compareResult[1] =
            IF Absent(o1) /\ Absent(o2) THEN TRUE
            ELSE IF Absent(o1) \/ Absent(o2) THEN FALSE
            ELSE o1.id = o2.id

\* C7 amended: true for null with null and for undefined with undefined,
\* false for null with undefined (either way round), false for one present
\* and one absent argument, and for two present arguments true exactly
\* when their identifiers are equal; so compareOrder(o, o) is true.
C7_CompareOrder ==
    compareResult # None =>
        /\ compareResult[1] =
            IF Absent(o1) /\ Absent(o2) THEN o1.kind = o2.kind
            ELSE IF Absent(o1) \/ Absent(o2) THEN FALSE
            ELSE o1.id = o2.id
        /\ o1 = o2 => compareResult[1] = TRUE

\* C7 witness: two different orders with one identifier compared equal.
C7_Witness ==
    /\ compareResult = Some(TRUE)
    /\ ~Absent(o1) /\ ~Absent(o2)
    /\ o1 # o2

(***************************************************************************)
(* getSortQueryParam                                                       *)
(***************************************************************************)
\* Strings are sequences of characters here, so that the concatenation is
\* computed.  ASC and DESC are config/navigation.constants.
ASC == <<"a", "s", "c">>
DESC == <<"d", "e", "s", "c">>
Predicates ==
    {<<>>, <<"i", "d">>, <<"d", "a", "t", "e">>, <<"d", "a", "t", "e", ",">>}

\* a default parameter takes its default when the argument is omitted
DefaultTo(arg, default) == IF arg = None THEN default ELSE arg[1]

\* `predicate || this.predicate` in the place of the default parameter: the
\* empty string falls back to the field too
GetSortQueryParamOrDefault(p, a) ==
    LET pred == IF p = None \/ p = Some(<<>>) THEN predicate ELSE p[1]
        ascendingQueryParam == IF DefaultTo(a, ascending) THEN ASC ELSE DESC
    IN  IF pred = <<>> THEN <<>>
        ELSE <<pred \o <<",">> \o ascendingQueryParam>>

\* getSortQueryParam(predicate = this.predicate, ascending = this.ascending);
\* p and a are the arguments, None when omitted
getSortQueryParam(p, a) ==
    LET pred == DefaultTo(p, predicate)
        ascendingQueryParam == IF DefaultTo(a, ascending) THEN ASC ELSE DESC
    IN  IF pred = <<>> THEN <<>>
        ELSE <<pred \o <<",">> \o ascendingQueryParam>>

InitSort == IdleSort /\ IdleColl /\ IdleCompare /\ IdleDate /\ IdleHttp /\ IdleShip /\ IdleShip

\* a caller assigns service.predicate
SetPredicate ==
    /\ \E p \in Predicates : predicate' = p
    /\ sortCall' = None
    /\ UNCHANGED <<ascending, collVars, compareVars, dateVars, httpVars, shipVars>>

\* a caller assigns service.ascending
SetAscending ==
    /\ \E a \in BOOLEAN : ascending' = a
    /\ sortCall' = None
    /\ UNCHANGED <<predicate, collVars, compareVars, dateVars, httpVars, shipVars>>

GetSortQueryParam ==
    /\ \E p \in {None} \cup {Some(x) : x \in Predicates},
          a \in {None} \cup {Some(x) : x \in BOOLEAN} :
          sortCall' = Some([p |-> p, a |-> a, returned |-> getSortQueryParam(p, a)])
    /\ UNCHANGED <<predicate, ascending, collVars, compareVars, dateVars, httpVars, shipVars>>

NextSort == SetPredicate \/ SetAscending \/ GetSortQueryParam

SpecSort == InitSort /\ [][NextSort]_vars

\* the value a call uses for an argument: the argument, or the field as it
\* stands when the argument is omitted
UsedPredicate == IF sortCall[1].p = None THEN predicate ELSE sortCall[1].p[1]
UsedAscending == IF sortCall[1].a = None THEN ascending ELSE sortCall[1].a[1]

\* C10: the call returns no string for the empty predicate and otherwise
\* the one string "<predicate>,asc" or "<predicate>,desc"; an omitted
\* argument stands for the service's field at the time of the call.
C10_SortQueryParam ==
    sortCall # None =>
        LET returned == sortCall[1].returned
        IN  /\ UsedPredicate = <<>> => returned = <<>>
            /\ UsedPredicate # <<>> =>
                /\ Len(returned) = 1
                /\ UsedAscending => returned[1] = UsedPredicate \o <<",", "a", "s", "c">>
                /\ ~UsedAscending =>
                      returned[1] = UsedPredicate \o <<",", "d", "e", "s", "c">>

\* C10 witness: after the caller set both fields, a call with both
\* arguments omitted returns "date,desc".
C10_Witness ==
    /\ sortCall # None
    /\ sortCall[1].p = None /\ sortCall[1].a = None
    /\ predicate = <<"d", "a", "t", "e">> /\ ascending = FALSE
    /\ sortCall[1].returned = << <<"d", "a", "t", "e", ",", "d", "e", "s", "c">> >>

(***************************************************************************)
(* convertDateFromClient, convertDateFromServer                            *)
(***************************************************************************)
\* An object is a function from the keys it has to their values: a key it
\* lacks and a key whose value is undefined are different things.
IsoMillis == {"2023-05-01T00:00:00.000Z", "2024-02-29T12:30:00.000Z"}
ValidDateStrings ==
    IsoMillis \cup
    {"2023-05-01T00:00:00Z", "2023-05-01T03:00:00+03:00", "2024-02-29T12:30:00Z"}
DateStrings == ValidDateStrings \cup {"not a date", ""}

\* the instant a date string denotes, named by its toISOString() text
Instant(s) ==
    IF s \in {"2023-05-01T00:00:00.000Z", "2023-05-01T00:00:00Z",
              "2023-05-01T03:00:00+03:00"}
    THEN "2023-05-01T00:00:00.000Z"
    ELSE "2024-02-29T12:30:00.000Z"

\* dayjs(s) for a non-empty string s
dayjs(s) ==
    IF s \in ValidDateStrings THEN Dayjs(Instant(s)) ELSE Dayjs("Invalid Date")

\* Dayjs.toJSON(): toISOString() of a valid date, null of an invalid one
toJSON(d) == IF d.v = "Invalid Date" THEN Null ELSE Str(d.v)

\* a string is falsy when empty
TruthyValue(v) ==
    /\ v # Null /\ v # Undefined
    /\ v.kind = "string" => v.v # ""

Get(obj, key) == IF key \in DOMAIN obj THEN obj[key] ELSE Undefined

\* { ...obj, date: value }
SpreadWithDate(obj, value) ==
    [k \in DOMAIN obj \cup {"date"} |-> IF k = "date" THEN value ELSE obj[k]]

\* the conversion without `?? null`
ConvertDateFromClientNoNull(ord) ==
    LET date == Get(ord, "date")
    IN  SpreadWithDate(ord, IF date \in {Null, Undefined} THEN Undefined
                            ELSE toJSON(date))

\* date: order.date?.toJSON() ?? null
convertDateFromClient(ord) ==
    LET date == Get(ord, "date")
        json == IF date \in {Null, Undefined} THEN Undefined ELSE toJSON(date)
    IN  SpreadWithDate(ord, IF json \in {Null, Undefined} THEN Null ELSE json)

\* date: restOrder.date ? dayjs(restOrder.date) : undefined
convertDateFromServer(rest) ==
    LET date == Get(rest, "date")
    IN  SpreadWithDate(rest, IF TruthyValue(date) THEN dayjs(date.v) ELSE Undefined)

\* the wire orders: an id, a `goods` field other than the date, and a date
\* that is a string, null or not there
RestOrders ==
    LET base == {[id |-> Str(i), goods |-> g] : i \in {"1", "2"}, g \in {Str("x"), Null}}
    IN  base \cup
        {SpreadWithDate(b, d) : b \in base,
                                d \in {Str(t) : t \in DateStrings} \cup {Null}}

InitDate ==
    /\ restOrder \in {Some(r) : r \in RestOrders}
    /\ orderInMemory = None
    /\ restOrderBack = None
    /\ datePc = "wire"
    /\ IdleColl /\ IdleCompare /\ IdleSort /\ IdleHttp /\ IdleShip

ConvertDateFromServer ==
    /\ datePc = "wire"
    /\ orderInMemory' = Some(convertDateFromServer(restOrder[1]))
    /\ datePc' = "memory"
    /\ UNCHANGED <<restOrder, restOrderBack, collVars, compareVars, sortVars, httpVars, shipVars>>

ConvertDateFromClient ==
    /\ datePc = "memory"
    /\ restOrderBack' = Some(convertDateFromClient(orderInMemory[1]))
    /\ datePc' = "sent"
    /\ UNCHANGED <<restOrder, orderInMemory, collVars, compareVars, sortVars, httpVars, shipVars>>

NextDate == ConvertDateFromServer \/ ConvertDateFromClient

SpecDate == InitDate /\ [][NextDate]_vars

\* an object carries no date: the key is not there, or its value is
\* undefined (which JSON leaves out)
NoDateField(obj) == Get(obj, "date") = Undefined

HasDateString(obj) ==
    /\ "date" \in DOMAIN obj
    /\ obj["date"] # Null
    /\ obj["date"].kind = "string"

OtherFieldsCopied(a, b) ==
    /\ DOMAIN a \ {"date"} = DOMAIN b \ {"date"}
    /\ \A k \in DOMAIN a \ {"date"} : a[k] = b[k]

\* C8 as stated: a date string comes back as the same string; a wire order
\* with no date field gives an in-memory order with no date and comes back
\* with no date field; every other field is copied through.
C8_Original_RoundTrip ==
    datePc = "sent" =>
        /\ HasDateString(restOrder[1]) =>
              restOrderBack[1]["date"] = restOrder[1]["date"]
        /\ "date" \notin DOMAIN restOrder[1] =>
              /\ NoDateField(orderInMemory[1])
              /\ NoDateField(restOrderBack[1])
        /\ OtherFieldsCopied(restOrder[1], restOrderBack[1])

\* C8 amended: a date string already in toJSON's form (ISO-8601, UTC, with
\* milliseconds) comes back as the same string; any other valid date
\* string comes back as the toJSON form of the same instant; a wire order
\* with no date field (or a null, empty or unparsable date) comes back
\* with the date field present and null, the in-memory date being
\* undefined when the wire date was missing, null or empty; every other
\* field is copied through.
C8_RoundTrip ==
    datePc = "sent" =>
        LET wire == restOrder[1]
            back == restOrderBack[1]
            sent == Get(wire, "date")
        IN  /\ "date" \in DOMAIN back
            /\ (HasDateString(wire) /\ sent.v \in IsoMillis) => back["date"] = sent
            /\ (HasDateString(wire) /\ sent.v \in ValidDateStrings) =>
                  back["date"] = Str(Instant(sent.v))
            /\ (sent \in {Undefined, Null, Str("")}) =>
                  /\ orderInMemory[1]["date"] = Undefined
                  /\ back["date"] = Null
            /\ sent = Str("not a date") => back["date"] = Null
            /\ OtherFieldsCopied(wire, back)
            /\ OtherFieldsCopied(wire, orderInMemory[1])

\* C8 witness: a date string that is not in toJSON's form has made the
\* round trip and come back changed.
C8_Witness ==
    /\ datePc = "sent"
    /\ HasDateString(restOrder[1])
    /\ restOrder[1]["date"].v \in ValidDateStrings \ IsoMillis
    /\ restOrderBack[1]["date"] # restOrder[1]["date"]

(***************************************************************************)
(* create, update, partialUpdate, find, query, delete                      *)
(***************************************************************************)
\* what an Observable delivers to its subscriber
Next(v) == [kind |-> "next", value |-> v]
Error(e) == [kind |-> "error", value |-> e]
Complete == [kind |-> "complete"]

\* resourceUrl, and `${this.resourceUrl}/${id}`
resourceUrl == <<"api/orders">>
UrlOf(id) == resourceUrl \o <<id>>

Request(method, url, body) == [method |-> method, url |-> url, body |-> body]

\* An HttpResponse: its status and its body, None for a null body.
Response(status, body) == [status |-> status, body |-> body]

\* res.clone({ body: res.body ? this.convertDateFromServer(res.body) : null })
convertResponseFromServer(res) ==
    [res EXCEPT !.body =
        IF res.body # None THEN Some(convertDateFromServer(res.body[1])) ELSE None]

\* res.clone({ body: res.body ? res.body.map(item => ...) : null })
convertResponseArrayFromServer(res) ==
    [res EXCEPT !.body =
        IF res.body # None
        THEN Some([i \in 1..Len(res.body[1]) |-> convertDateFromServer(res.body[1][i])])
        ELSE None]

\* the operations whose observable is piped through map(...)
EntityOps == {"create", "update", "partialUpdate", "find"}

\* a pipe that catches the failure and delivers an empty response in its
\* place
PipeCatching(op, n) ==
    IF n.kind = "error"
    THEN [out |-> Next(Response(200, None)), conversions |-> 0]
    ELSE IF op \in EntityOps
         THEN [out |-> Next(convertResponseFromServer(n.value)), conversions |-> 1]
         ELSE IF op = "query"
              THEN [out |-> Next(convertResponseArrayFromServer(n.value)),
                    conversions |-> 1]
              ELSE [out |-> n, conversions |-> 0]

\* .pipe(map(res => ...)): map projects a value and passes a failure on;
\* delete has no pipe.  Returns what the subscriber is delivered and the
\* number of conversions run.
Pipe(op, n) ==
    IF n.kind = "next" /\ op \in EntityOps
    THEN [out |-> Next(convertResponseFromServer(n.value)), conversions |-> 1]
    ELSE IF n.kind = "next" /\ op = "query"
         THEN [out |-> Next(convertResponseArrayFromServer(n.value)),
               conversions |-> 1]
         ELSE [out |-> n, conversions |-> 0]

\* the orders callers pass in, and the bodies and failures the server
\* answers with
SomeDay == Dayjs("2023-05-01T00:00:00.000Z")
NewOrders == {[goods |-> Str("x")], [goods |-> Str("x"), date |-> SomeDay]}
IOrders == {[id |-> Str("1"), goods |-> Str("x"), date |-> SomeDay],
            [id |-> Str("2"), goods |-> Str("x")]}
PartialOrders == {[id |-> Str("1")], [id |-> Str("2"), date |-> SomeDay]}
RequestOptions == {None, Some([sort |-> <<"id,asc">>])}
ResponseBodies ==
    {[id |-> Str("1"), goods |-> Str("x"), date |-> Str("2023-05-01T00:00:00Z")],
     [id |-> Str("2"), goods |-> Str("x")]}
HttpErrors == {[name |-> "HttpErrorResponse", status |-> st] : st \in {0, 404, 500, 503}}

InitHttp == IdleHttp /\ IdleColl /\ IdleCompare /\ IdleSort /\ IdleDate /\ IdleShip

\* no request of an earlier call is still in flight
NoneInFlight == httpCall = None \/ httpOut # <<>>

\* the method call and the caller's subscription to what it returns
Invoke(op, request) ==
    /\ NoneInFlight
    /\ httpCall' = Some(op)
    /\ httpRequests' = <<request>>
    /\ httpFailure' = None
    /\ httpOut' = <<>>
    /\ conversions' = 0
    /\ UNCHANGED <<collVars, compareVars, sortVars, dateVars, shipVars>>

Create ==
    \E ord \in NewOrders :
        Invoke("create", Request("POST", resourceUrl, Some(convertDateFromClient(ord))))

Update ==
    \E ord \in IOrders :
        Invoke("update",
               Request("PUT", UrlOf(getOrderIdentifier(ord).v),
                       Some(convertDateFromClient(ord))))

PartialUpdate ==
    \E ord \in PartialOrders :
        Invoke("partialUpdate",
               Request("PATCH", UrlOf(getOrderIdentifier(ord).v),
                       Some(convertDateFromClient(ord))))

Find == \E id \in Ids : Invoke("find", Request("GET", UrlOf(id), None))

\* the third field of the request is here the options made of req
Query == \E req \in RequestOptions : Invoke("query", Request("GET", resourceUrl, req))

Delete == \E id \in Ids : Invoke("delete", Request("DELETE", UrlOf(id), None))

\* the request succeeds: the response goes through the pipe to the caller
HttpResponds ==
    /\ httpCall # None /\ httpOut = <<>>
    /\ \E res \in IF httpCall[1] = "query"
                  THEN {Response(200, b) : b \in {None, Some(<<>>)} \cup
                                                {Some(<<x, y>>) : x, y \in ResponseBodies}}
                  ELSE {Response(200, b) : b \in {None} \cup
                                                {Some(x) : x \in ResponseBodies}} :
          LET piped == Pipe(httpCall[1], Next(res))
          IN  /\ httpOut' = <<piped.out, Complete>>
              /\ conversions' = conversions + piped.conversions
    /\ UNCHANGED <<httpCall, httpRequests, httpFailure,
                   collVars, compareVars, sortVars, dateVars, shipVars>>

\* the request fails
HttpFails ==
    /\ httpCall # None /\ httpOut = <<>>
    /\ \E e \in HttpErrors :
          LET piped == Pipe(httpCall[1], Error(e))
          IN  /\ httpFailure' = Some(e)
              /\ httpOut' = <<piped.out>>
              /\ conversions' = conversions + piped.conversions
    /\ UNCHANGED <<httpCall, httpRequests, collVars, compareVars, sortVars, dateVars, shipVars>>

NextHttp ==
    \/ Create \/ Update \/ PartialUpdate \/ Find \/ Query \/ Delete
    \/ HttpResponds \/ HttpFails

SpecHttp == InitHttp /\ [][NextHttp]_vars

\* C9: a call hands exactly one request to HttpClient; when that request
\* fails the caller is delivered that failure, unchanged, and nothing else:
\* no conversion was run, no second request was made, no success result.
C9_FailurePassedThrough ==
    /\ httpCall # None => Len(httpRequests) = 1
    /\ httpFailure # None =>
          /\ httpOut = <<Error(httpFailure[1])>>
          /\ conversions = 0
          /\ Len(httpRequests) = 1

\* C9 witness: an update whose request failed with status 500.
C9_Witness ==
    /\ httpCall = Some("update")
    /\ httpFailure # None
    /\ httpFailure[1].status = 500
    /\ httpOut # <<>>

(***************************************************************************)
(* decrementGoodsCountOnShip                                               *)
(***************************************************************************)
GoodIds == {"g1", "g2"}
GoodInOrders ==
    [good_id : GoodIds, good_amount : {10, 5}, good_in_order_amount : {3, 5}]

\* the call sets the amount to the ordered quantity, not to the remainder
UpdateCallOrdered(goodInOrder) ==
    [good_id |-> goodInOrder.good_id, amount |-> goodInOrder.good_in_order_amount]

\* the callback of goodsInOrder.map: the call made to
\* goodService.updateAmountByGoodId(good_id, diff)
UpdateCall(goodInOrder) ==
    LET diff == goodInOrder.good_amount - goodInOrder.good_in_order_amount
    IN  [good_id |-> goodInOrder.good_id, amount |-> diff]

\* GoodService.updateAmountByGoodId returns an observable of one HTTP call:
\* once subscribed it delivers one response and completes, or fails
UpdateResponses == {Response(200, None), Response(204, None)}
UpdateErrors == {e \in HttpErrors : e.status \in {404, 500}}
Pending == [state |-> "pending", value |-> Undefined]
Responded(res) == [state |-> "responded", value |-> res]
Failed(e) == [state |-> "failed", value |-> e]

AllResponded(upd) == \A i \in 1..Len(upd) : upd[i].state = "responded"
Values(upd) == [i \in 1..Len(upd) |-> upd[i].value]

\* combineLatest, subscribed to: with no source it completes at once
CombineLatestOnSubscribe(upd) == IF Len(upd) = 0 THEN <<Complete>> ELSE <<>>

\* a join that delivers the values it has at every response
CombineLatestOnNextEager(upd) == <<Next(Values(upd))>>

\* combineLatest, a source has delivered a value: once every source has
\* delivered one, the values are delivered in the order of the sources
CombineLatestOnNext(upd) ==
    IF AllResponded(upd) THEN <<Next(Values(upd))>> ELSE <<>>

\* combineLatest, a source has completed: it completes with the last one
CombineLatestOnComplete(upd) == IF AllResponded(upd) THEN <<Complete>> ELSE <<>>

\* a join that reports a failure once every source has settled
CombineLatestOnErrorSettled(upd, e) ==
    IF \A i \in 1..Len(upd) : upd[i].state # "pending" THEN <<Error(e)>> ELSE <<>>

\* combineLatest, a source has failed: the failure is delivered at once
CombineLatestOnError(upd, e) == <<Error(e)>>

\* the combined observable has ended: its sources are unsubscribed from
Terminated(out) == \E k \in 1..Len(out) : out[k].kind \in {"error", "complete"}

InitShip ==
    /\ goodsInOrder \in SeqsUpTo(GoodInOrders, MaxGoods)
    /\ updateCalls = <<>>
    /\ shipPc = "idle"
    /\ updates = <<>>
    /\ arrivals = <<>>
    /\ joinOut = <<>>
    /\ IdleColl /\ IdleCompare /\ IdleSort /\ IdleDate /\ IdleHttp

\* the method call: one updateAmountByGoodId call per entry, and the
\* combined observable is returned
DecrementGoodsCountOnShip ==
    /\ shipPc = "idle"
    /\ updateCalls' = [i \in 1..Len(goodsInOrder) |-> UpdateCall(goodsInOrder[i])]
    /\ updates' = [i \in 1..Len(goodsInOrder) |-> Pending]
    /\ shipPc' = "returned"
    /\ UNCHANGED <<goodsInOrder, arrivals, joinOut,
                   collVars, compareVars, sortVars, dateVars, httpVars>>

\* the caller subscribes
Subscribe ==
    /\ shipPc = "returned"
    /\ shipPc' = "subscribed"
    /\ joinOut' = CombineLatestOnSubscribe(updates)
    /\ UNCHANGED <<goodsInOrder, updateCalls, updates, arrivals,
                   collVars, compareVars, sortVars, dateVars, httpVars>>

\* update i delivers its response and completes
UpdateResponds ==
    /\ shipPc = "subscribed" /\ ~Terminated(joinOut)
    /\ \E i \in 1..Len(updates), res \in UpdateResponses :
        /\ updates[i].state = "pending"
        /\ updates' = [updates EXCEPT ![i] = Responded(res)]
        /\ arrivals' = Append(arrivals, i)
        /\ joinOut' = joinOut \o CombineLatestOnNext(updates')
                              \o CombineLatestOnComplete(updates')
    /\ UNCHANGED <<goodsInOrder, updateCalls, shipPc,
                   collVars, compareVars, sortVars, dateVars, httpVars>>

\* update i fails
UpdateFails ==
    /\ shipPc = "subscribed" /\ ~Terminated(joinOut)
    /\ \E i \in 1..Len(updates), e \in UpdateErrors :
        /\ updates[i].state = "pending"
        /\ updates' = [updates EXCEPT ![i] = Failed(e)]
        /\ arrivals' = Append(arrivals, i)
        /\ joinOut' = joinOut \o CombineLatestOnError(updates', e)
    /\ UNCHANGED <<goodsInOrder, updateCalls, shipPc,
                   collVars, compareVars, sortVars, dateVars, httpVars>>

NextShip == DecrementGoodsCountOnShip \/ Subscribe \/ UpdateResponds \/ UpdateFails

SpecShip == InitShip /\ [][NextShip]_vars

\* every result delivered was delivered with every update responded, and
\* is the responses in the order of the entries
ResultsInInputOrder ==
    \A k \in 1..Len(joinOut) :
        joinOut[k].kind = "next" =>
            /\ \A i \in 1..Len(updates) : updates[i].state = "responded"
            /\ Len(joinOut[k].value) = Len(goodsInOrder)
            /\ \A i \in 1..Len(goodsInOrder) : joinOut[k].value[i] = updates[i].value

ResultDelivered == \E k \in 1..Len(joinOut) : joinOut[k].kind = "next"

EveryUpdateResponded ==
    /\ shipPc = "subscribed"
    /\ \A i \in 1..Len(updates) : updates[i].state = "responded"

\* C4 as stated: for every input, the empty one included, the result is
\* delivered once every update has responded and not before, and it is the
\* responses in the order of the entries.
C4_Original_ResultForEveryInput ==
    /\ ResultsInInputOrder
    /\ EveryUpdateResponded => ResultDelivered

\* C4 amended: for every non-empty input the result is delivered once
\* every update has responded and not before, and it is the responses in
\* the order of the entries, whatever order they arrived in; for the empty
\* input the operation completes on subscription and delivers no result.
C4_ResultAfterAllResponses ==
    /\ ResultsInInputOrder
    /\ (EveryUpdateResponded /\ Len(goodsInOrder) > 0) =>
          joinOut = <<Next(Values(updates)), Complete>>
    /\ (shipPc = "subscribed" /\ Len(goodsInOrder) = 0) => joinOut = <<Complete>>

\* C4 witness: two updates answered with different responses, the second
\* first, and the result is in the order of the entries.
C4_Witness ==
    /\ arrivals = <<2, 1>>
    /\ ResultDelivered
    /\ updates[1].value # updates[2].value

\* the failure that came first
FirstFailure ==
    LET k == CHOOSE k \in 1..Len(arrivals) :
                 /\ updates[arrivals[k]].state = "failed"
                 /\ \A j \in 1..(k - 1) : updates[arrivals[j]].state # "failed"
    IN  updates[arrivals[k]].value

\* C5: from the moment an update has failed, the subscriber has been
\* delivered that first failure and nothing else, whatever the other
\* updates have done; no result is delivered before or after it.
C5_FailFast ==
    (\E i \in 1..Len(updates) : updates[i].state = "failed")
        => joinOut = <<Error(FirstFailure)>>

\* C5 witness: of two updates the first has responded, the second has
\* failed after it, and the operation has failed.
C5_Witness ==
    /\ Len(updates) = 2
    /\ updates[1].state = "responded"
    /\ updates[2].state = "failed"
    /\ Terminated(joinOut)

\* C6: the call makes exactly one update call per entry, addressed to the
\* entry's good_id, with the amount good_amount - good_in_order_amount.
C6_OneUpdatePerEntry ==
    shipPc # "idle" =>
        /\ Len(updateCalls) = Len(goodsInOrder)
        /\ \A i \in 1..Len(goodsInOrder) :
              /\ updateCalls[i].good_id = goodsInOrder[i].good_id
              /\ updateCalls[i].amount + goodsInOrder[i].good_in_order_amount
                    = goodsInOrder[i].good_amount

\* C6 witness: the entries (g1, 10, 3) and (g2, 5, 5) gave the calls
\* (g1, 7) and (g2, 0).
C6_Witness ==
    /\ shipPc = "subscribed"
    /\ goodsInOrder =
          <<[good_id |-> "g1", good_amount |-> 10, good_in_order_amount |-> 3],
            [good_id |-> "g2", good_amount |-> 5, good_in_order_amount |-> 5]>>
    /\ updateCalls = <<[good_id |-> "g1", amount |-> 7], [good_id |-> "g2", amount |-> 0]>>

====
